---- MODULE Spec2Model ----
(***************************************************************************)
(* bsky-feed-bot: the feed synchronisation pipeline of src/src/main.rs.    *)
(* One run of execute() logs in, scans the table of registered feeds and   *)
(* calls process_feed for every row, one after the other.  process_feed    *)
(* fetches the feed, collects the entries that are newer than the stored   *)
(* last_posted_entry_id, posts them oldest first and stores the id of the  *)
(* last posted entry.  Every await of the code is one step of the model;   *)
(* the outcome of each network call is chosen by the environment.          *)
(***************************************************************************)
EXTENDS Integers, Sequences, FiniteSets

\* Longest feed document the environment serves.
MaxEntries == 3

\* Option::None of FeedRecord.last_posted_entry_id; entry ids are 1, 2, ...
None == 0

\* The rows of the table bsky-feed-bot-registered-feeds, in scan order.
RegisteredFeeds == <<"feed_a", "feed_b">>

FeedUrls == {RegisteredFeeds[i] : i \in 1..Len(RegisteredFeeds)}

\* A feed document with n entries, newest first: ids n, n-1, ..., 1.
FeedDocument(n) == [i \in 1..n |-> n + 1 - i]

FeedDocuments == {FeedDocument(n) : n \in 0..MaxEntries}

Range(s) == {s[i] : i \in 1..Len(s)}

VARIABLES
    table,                  \* url -> stored last_posted_entry_id (None if absent)
    source,                 \* url -> entries the feed serves, newest first
    pc,                     \* position of execute / process_feed
    feed_records,           \* result of list_registered_feeds (snapshot of table)
    feed_index,             \* position of the for loop of execute
    entries,                \* process_feed: extract_feed_entries(&feed)
    target_entries,         \* process_feed: the entries to post, oldest first
    entry_index,            \* process_feed: position of the for loop over target_entries
    last_posted_entry_id,   \* process_feed: the local of main.rs:74
    feed_process_results,   \* execute: one result per processed feed
    result,                 \* what execute returned ("none" while running)
    deltas,                 \* history: url -> the target_entries computed in this run
    posts,                  \* history: url -> ids create_record accepted in this run
    writes,                 \* history: url -> values stored for the url in this run
    prev_posts,             \* history: posts of the previous run
    prev_results,           \* history: outcome per feed of the previous run
    prev_result,            \* history: outcome of the previous run
    attempted,              \* history: url -> ids an upload or create_record call was issued for
    logins,                 \* history: the outcomes of BskyClient::new() in this run
    client_pc,              \* BskyClient: position inside upload_blob / create_record
    session,                \* BskyClient.session: the tokens held
    request,                \* BskyClient: the reqwest::Request built for the call
                            \* (op "none": the call builds none)
    executions,             \* history: the executions of the request in this call
    refreshes,              \* history: the refresh_session calls of this call
    call_result,            \* BskyClient: what the last call returned
    session_before,         \* history: the session when the call began
    compose_pc,             \* position of the composition of one record
    debug_assertions,       \* cfg!(debug_assertions) of the build
    feed_title,             \* feed.title of the fetched feed
    feed_entry,             \* the FeedEntry being posted
    ogp_info,               \* Option<OGPInfo> of extract_feed_entry_info
    upload_blob_response,   \* Option<UploadBlobResponse> of the upload
    create_record_request,  \* the CreateRecordRequest composed
    sent,                   \* history: the request create_record was called with
    extract_pc,             \* position of the processing of one fetched feed
    feed,                   \* the entries of the feed_rs Feed that get_feed returned
    stored_id,              \* feed_record.last_posted_entry_id
    extracted,              \* extract_feed_entries(feed), as feed.rs returns it
    extracted_ids,          \* the id of each extracted entry, which main.rs reads
    delta,                  \* the target_entries computed from them
    delta_index,            \* position of the for loop over the delta
    extract_result,         \* what process_feed returned ("none" while running)
    published,              \* history: ids create_record accepted
    stored                  \* history: ids written to the cursor store

\* The pipeline of main.rs.
pipeline_vars == <<table, source, pc, feed_records, feed_index, entries,
                   target_entries, entry_index, last_posted_entry_id,
                   feed_process_results, result, deltas, posts, writes,
                   prev_posts, prev_results, prev_result, attempted, logins>>

\* The publish client of bsky.rs, specified on its own further down.
client_vars == <<client_pc, session, request, executions, refreshes, call_result,
                 session_before>>

\* The composition of a record, bsky.rs:215-275, specified on its own further down.
compose_vars == <<compose_pc, debug_assertions, feed_title, feed_entry, ogp_info,
                  upload_blob_response, create_record_request, sent>>

\* The extraction of the entries of a feed, feed.rs:74-89, specified on its
\* own further down.
extract_vars == <<extract_pc, feed, stored_id, extracted, extracted_ids, delta,
                  delta_index, extract_result, published, stored>>

other_vars == <<client_vars, compose_vars, extract_vars>>

vars == <<table, source, pc, feed_records, feed_index, entries, target_entries,
          entry_index, last_posted_entry_id, feed_process_results, result,
          deltas, posts, writes, prev_posts, prev_results, prev_result,
          attempted, logins, other_vars>>

----------------------------------------------------------------------------
\* process_feed, main.rs:60-73: the delta against the stored cursor.

Reverse(s) == [i \in 1..Len(s) |-> s[Len(s) + 1 - i]]

RECURSIVE CollectEntries(_, _, _, _)
CollectEntries(es, cursor, index, acc) ==
    IF index > Len(es) THEN acc
    ELSE IF cursor # None /\ es[index] = cursor THEN acc
    ELSE IF index = 1 /\ cursor = None THEN Append(acc, es[index])
    ELSE CollectEntries(es, cursor, index + 1, Append(acc, es[index]))

\* Plausible slips in the loop of main.rs:61-73.
\* The reverse of main.rs:73 is missing.
TargetEntriesNotReversed(es, cursor) == CollectEntries(es, cursor, 1, <<>>)

\* The break of main.rs:64 comes after the push: the stored entry is collected.
RECURSIVE CollectThroughCursor(_, _, _, _)
CollectThroughCursor(es, cursor, index, acc) ==
    IF index > Len(es) THEN acc
    ELSE IF cursor # None /\ es[index] = cursor THEN Append(acc, es[index])
    ELSE IF index = 1 /\ cursor = None THEN Append(acc, es[index])
    ELSE CollectThroughCursor(es, cursor, index + 1, Append(acc, es[index]))

TargetEntriesThroughCursor(es, cursor) ==
    Reverse(CollectThroughCursor(es, cursor, 1, <<>>))

\* The break of main.rs:69-71 is missing: without a stored id the whole feed
\* is collected.
RECURSIVE CollectNoFirstRunBreak(_, _, _, _)
CollectNoFirstRunBreak(es, cursor, index, acc) ==
    IF index > Len(es) THEN acc
    ELSE IF cursor # None /\ es[index] = cursor THEN acc
    ELSE CollectNoFirstRunBreak(es, cursor, index + 1, Append(acc, es[index]))

TargetEntriesBackfill(es, cursor) ==
    Reverse(CollectNoFirstRunBreak(es, cursor, 1, <<>>))

\* A stored id that no entry matches is taken as "nothing is new".
TargetEntriesNoMatchEmpty(es, cursor) ==
    IF cursor # None /\ cursor \notin {es[i] : i \in 1..Len(es)}
    THEN <<>>
    ELSE Reverse(CollectEntries(es, cursor, 1, <<>>))

TargetEntries(es, cursor) == Reverse(CollectEntries(es, cursor, 1, <<>>))

----------------------------------------------------------------------------
\* The publish client as the pipeline sees it: logged in, no call in flight.
\* The pipeline takes a call of the client as one step with its outcome.
ClientAtRest ==
    /\ client_pc = "idle"
    /\ session = [access_jwt |-> 1, refresh_jwt |-> 1,
                  handle |-> "bot.bsky.social", did |-> "did:plc:bot"]
    /\ request = [op |-> "none", bearer |-> 0]
    /\ executions = <<>>
    /\ refreshes = <<>>
    /\ call_result = "none"
    /\ session_before = session

\* Option<T>: Option::None and Some(v).
Absent == <<>>

Some(v) == <<v>>

\* No record is being composed.
ComposeAtRest ==
    /\ compose_pc = "idle"
    /\ debug_assertions = FALSE
    /\ feed_title = Absent
    /\ feed_entry = [title |-> Absent, url |-> "https://example.com/1"]
    /\ ogp_info = Absent
    /\ upload_blob_response = Absent
    /\ create_record_request = Absent
    /\ sent = Absent

\* The pipeline before a run: the feeds and the stored ids are any, nothing
\* has been done.
PipelineAtStart ==
    /\ source \in [FeedUrls -> FeedDocuments]
    /\ table \in [FeedUrls -> 0..(MaxEntries + 1)]
    /\ \A u \in FeedUrls : table[u] <= Len(source[u]) + 1
    /\ pc = "login"
    /\ feed_records = <<>>
    /\ feed_index = 0
    /\ entries = <<>>
    /\ target_entries = <<>>
    /\ entry_index = 0
    /\ last_posted_entry_id = None
    /\ feed_process_results = <<>>
    /\ result = "none"
    /\ deltas = [u \in FeedUrls |-> <<>>]
    /\ posts = [u \in FeedUrls |-> <<>>]
    /\ writes = [u \in FeedUrls |-> <<>>]
    /\ prev_posts = [u \in FeedUrls |-> <<>>]
    /\ prev_results = <<>>
    /\ prev_result = "none"
    /\ attempted = [u \in FeedUrls |-> <<>>]
    /\ logins = <<>>

\* No fetched feed is being looked at.
ExtractAtRest ==
    /\ extract_pc = "idle"
    /\ feed = <<>>
    /\ stored_id = None
    /\ extracted = <<>>
    /\ extracted_ids = <<>>
    /\ delta = <<>>
    /\ delta_index = 0
    /\ extract_result = "none"
    /\ published = <<>>
    /\ stored = <<>>

Init ==
    /\ PipelineAtStart
    /\ ClientAtRest
    /\ ComposeAtRest
    /\ ExtractAtRest

----------------------------------------------------------------------------
\* execute, main.rs:41-49: push the feed's result, go on with the next feed
\* record, and after the last one collect the results (the first Err wins).

RECURSIVE CollectResults(_)
CollectResults(results) ==
    IF results = <<>> THEN "Ok"
    ELSE IF Head(results) # "Ok" THEN Head(results)
    ELSE CollectResults(Tail(results))

FinishFeed(res) ==
    LET results == Append(feed_process_results, res) IN
    /\ feed_process_results' = results
    /\ entries' = <<>>
    /\ target_entries' = <<>>
    /\ entry_index' = 0
    /\ last_posted_entry_id' = None
    /\ IF feed_index < Len(feed_records)
       THEN /\ feed_index' = feed_index + 1
            /\ pc' = "get_feed"
            /\ result' = result
       ELSE /\ feed_index' = 0
            /\ pc' = "done"
            /\ result' = CollectResults(results)

\* The run ends before the loop over the feeds has finished.
EndRun(res) ==
    /\ pc' = "done"
    /\ result' = res
    /\ feed_index' = 0
    /\ entries' = <<>>
    /\ target_entries' = <<>>
    /\ entry_index' = 0
    /\ last_posted_entry_id' = None
    /\ UNCHANGED feed_process_results

Url == feed_records[feed_index].url

\* The entry joins the attempted ones with the first call issued for it.
AppendOnce(s, id) == IF id \in Range(s) THEN s ELSE Append(s, id)

----------------------------------------------------------------------------
\* execute, main.rs:37: BskyClient::new().await?

LoginOk ==
    /\ pc = "login"
    /\ pc' = "list_registered_feeds"
    /\ UNCHANGED <<table, source, feed_records, feed_index, entries, target_entries,
                   entry_index, last_posted_entry_id, feed_process_results, result,
                   deltas, posts, writes, prev_posts, prev_results, prev_result>>
    /\ logins' = Append(logins, "Ok")
    /\ UNCHANGED <<attempted, other_vars>>

\* A plausible slip: the Err of the login is dropped and the run goes on.
LoginErrIgnored ==
    /\ pc = "login"
    /\ pc' = "list_registered_feeds"
    /\ UNCHANGED <<table, source, feed_records, feed_index, entries, target_entries,
                   entry_index, last_posted_entry_id, feed_process_results, result,
                   deltas, posts, writes, prev_posts, prev_results, prev_result>>
    /\ logins' = Append(logins, "Err")
    /\ UNCHANGED <<attempted, other_vars>>

LoginErr ==
    /\ pc = "login"
    /\ EndRun("LoginError")
    /\ UNCHANGED <<table, source, feed_records, deltas, posts, writes,
                   prev_posts, prev_results, prev_result>>
    /\ logins' = Append(logins, "Err")
    /\ UNCHANGED <<attempted, other_vars>>

\* execute, main.rs:38: list_registered_feeds(&dynamodb_client).await?

ListRegisteredFeedsOk ==
    /\ pc = "list_registered_feeds"
    /\ feed_records' = [i \in 1..Len(RegisteredFeeds) |->
                          [url |-> RegisteredFeeds[i],
                           last_posted_entry_id |-> table[RegisteredFeeds[i]]]]
    /\ IF Len(RegisteredFeeds) > 0
       THEN /\ pc' = "get_feed"
            /\ feed_index' = 1
            /\ result' = result
       ELSE /\ pc' = "done"
            /\ feed_index' = 0
            /\ result' = "Ok"
    /\ UNCHANGED <<table, source, entries, target_entries, entry_index,
                   last_posted_entry_id, feed_process_results,
                   deltas, posts, writes, prev_posts, prev_results, prev_result>>
    /\ UNCHANGED <<attempted, logins, other_vars>>

ListRegisteredFeedsErr ==
    /\ pc = "list_registered_feeds"
    /\ EndRun("ScanError")
    /\ UNCHANGED <<table, source, feed_records, deltas, posts, writes,
                   prev_posts, prev_results, prev_result>>
    /\ UNCHANGED <<attempted, logins, other_vars>>

----------------------------------------------------------------------------
\* process_feed, main.rs:58-74: fetch the feed and compute the delta.  With
\* nothing to post the loop of main.rs:75 is skipped: the stored id, if any,
\* is written again (main.rs:97), otherwise the feed is finished.

GetFeedOk ==
    /\ pc = "get_feed"
    /\ LET cursor == feed_records[feed_index].last_posted_entry_id
           es == source[Url]
           targets == TargetEntries(es, cursor)
       IN /\ deltas' = [deltas EXCEPT ![Url] = Append(@, targets)]
          /\ IF targets # <<>>
             THEN /\ entries' = es
                  /\ target_entries' = targets
                  /\ entry_index' = 1
                  /\ last_posted_entry_id' = cursor
                  /\ pc' = "extract_feed_entry_info"
                  /\ UNCHANGED <<feed_index, feed_process_results, result>>
             ELSE IF cursor # None
             THEN /\ entries' = es
                  /\ target_entries' = targets
                  /\ entry_index' = 0
                  /\ last_posted_entry_id' = cursor
                  /\ pc' = "update_application_info"
                  /\ UNCHANGED <<feed_index, feed_process_results, result>>
             ELSE FinishFeed("Ok")
    /\ UNCHANGED <<table, source, feed_records, posts, writes,
                   prev_posts, prev_results, prev_result>>
    /\ UNCHANGED <<attempted, logins, other_vars>>

GetFeedErr ==
    /\ pc = "get_feed"
    /\ FinishFeed("FetchError")
    /\ UNCHANGED <<table, source, feed_records, deltas, posts, writes,
                   prev_posts, prev_results, prev_result>>
    /\ UNCHANGED <<attempted, logins, other_vars>>

----------------------------------------------------------------------------
\* process_feed, main.rs:77, feed.rs:143-155: extract_feed_entry_info never
\* returns Err; it yields an image or none.

ExtractFeedEntryInfo ==
    /\ pc = "extract_feed_entry_info"
    /\ \E has_og_image \in BOOLEAN :
         pc' = IF has_og_image THEN "upload_thumbnail" ELSE "create_record"
    /\ UNCHANGED <<table, source, feed_records, feed_index, entries, target_entries,
                   entry_index, last_posted_entry_id, feed_process_results, result,
                   deltas, posts, writes, prev_posts, prev_results, prev_result>>
    /\ UNCHANGED <<attempted, logins, other_vars>>

\* feed.rs:130-133: get_og_image unwraps the content-type header; a response
\* without one panics and the run is over.

ExtractFeedEntryInfoPanic ==
    /\ pc = "extract_feed_entry_info"
    /\ EndRun("Panic")
    /\ UNCHANGED <<table, source, feed_records, deltas, posts, writes,
                   prev_posts, prev_results, prev_result>>
    /\ UNCHANGED <<attempted, logins, other_vars>>

\* process_feed, main.rs:78-85: upload_thumbnail_with_resizing(..).await?

UploadThumbnailOk ==
    /\ pc = "upload_thumbnail"
    /\ pc' = "create_record"
    /\ UNCHANGED <<table, source, feed_records, feed_index, entries, target_entries,
                   entry_index, last_posted_entry_id, feed_process_results, result,
                   deltas, posts, writes, prev_posts, prev_results, prev_result>>
    /\ attempted' = [attempted EXCEPT ![Url] = AppendOnce(@, target_entries[entry_index])]
    /\ UNCHANGED <<logins, other_vars>>

UploadThumbnailErr ==
    /\ pc = "upload_thumbnail"
    /\ FinishFeed("UploadError")
    /\ UNCHANGED <<table, source, feed_records, deltas, posts, writes,
                   prev_posts, prev_results, prev_result>>
    /\ attempted' = [attempted EXCEPT ![Url] = AppendOnce(@, target_entries[entry_index])]
    /\ UNCHANGED <<logins, other_vars>>

\* The upload got a 401 and the refresh it triggered failed (bsky.rs:154):
\* the Err comes back through the same ? of main.rs:82.
UploadThumbnailAuthErr ==
    /\ pc = "upload_thumbnail"
    /\ FinishFeed("AuthError")
    /\ UNCHANGED <<table, source, feed_records, deltas, posts, writes,
                   prev_posts, prev_results, prev_result>>
    /\ attempted' = [attempted EXCEPT ![Url] = AppendOnce(@, target_entries[entry_index])]
    /\ UNCHANGED <<logins, other_vars>>

----------------------------------------------------------------------------
\* process_feed, main.rs:94-96: create_record(..).await?, then the local
\* last_posted_entry_id takes the entry's id and the loop goes on.

CreateRecordOk ==
    /\ pc = "create_record"
    /\ LET id == target_entries[entry_index] IN
         /\ posts' = [posts EXCEPT ![Url] = Append(@, id)]
         /\ last_posted_entry_id' = id
    /\ IF entry_index < Len(target_entries)
       THEN /\ entry_index' = entry_index + 1
            /\ pc' = "extract_feed_entry_info"
       ELSE /\ entry_index' = 0
            /\ pc' = "update_application_info"
    /\ UNCHANGED <<table, source, feed_records, feed_index, entries, target_entries,
                   feed_process_results, result, deltas, writes,
                   prev_posts, prev_results, prev_result>>
    /\ attempted' = [attempted EXCEPT ![Url] = AppendOnce(@, target_entries[entry_index])]
    /\ UNCHANGED <<logins, other_vars>>

\* A plausible slip: the Err of create_record is dropped instead of returned,
\* and the loop goes on as after a success.
CreateRecordErrSwallowed ==
    /\ pc = "create_record"
    /\ last_posted_entry_id' = target_entries[entry_index]
    /\ IF entry_index < Len(target_entries)
       THEN /\ entry_index' = entry_index + 1
            /\ pc' = "extract_feed_entry_info"
       ELSE /\ entry_index' = 0
            /\ pc' = "update_application_info"
    /\ UNCHANGED <<table, source, feed_records, feed_index, entries, target_entries,
                   feed_process_results, result, deltas, posts, writes,
                   prev_posts, prev_results, prev_result>>
    /\ attempted' = [attempted EXCEPT ![Url] = AppendOnce(@, target_entries[entry_index])]
    /\ UNCHANGED <<logins, other_vars>>

CreateRecordErr ==
    /\ pc = "create_record"
    /\ FinishFeed("CreateError")
    /\ UNCHANGED <<table, source, feed_records, deltas, posts, writes,
                   prev_posts, prev_results, prev_result>>
    /\ attempted' = [attempted EXCEPT ![Url] = AppendOnce(@, target_entries[entry_index])]
    /\ UNCHANGED <<logins, other_vars>>

\* The create_record got a 401 and the refresh it triggered failed
\* (bsky.rs:154): the Err comes back through the same ? of main.rs:94.
CreateRecordAuthErr ==
    /\ pc = "create_record"
    /\ FinishFeed("AuthError")
    /\ UNCHANGED <<table, source, feed_records, deltas, posts, writes,
                   prev_posts, prev_results, prev_result>>
    /\ attempted' = [attempted EXCEPT ![Url] = AppendOnce(@, target_entries[entry_index])]
    /\ UNCHANGED <<logins, other_vars>>

----------------------------------------------------------------------------
\* process_feed, main.rs:97-104, dynamodb.rs:59-76: SET last_posted_entry_id.

\* A plausible slip: the feed record's id is stored instead of the local.
StoredValueStale == feed_records[feed_index].last_posted_entry_id

\* main.rs:97-101: the value handed to update_application_info_in_dynamodb.
StoredValue == last_posted_entry_id

UpdateApplicationInfoOk ==
    /\ pc = "update_application_info"
    /\ table' = [table EXCEPT ![Url] = StoredValue]
    /\ writes' = [writes EXCEPT ![Url] = Append(@, StoredValue)]
    /\ FinishFeed("Ok")
    /\ UNCHANGED <<source, feed_records, deltas, posts,
                   prev_posts, prev_results, prev_result>>
    /\ UNCHANGED <<attempted, logins, other_vars>>

UpdateApplicationInfoErr ==
    /\ pc = "update_application_info"
    /\ FinishFeed("StoreError")
    /\ UNCHANGED <<table, source, feed_records, deltas, posts, writes,
                   prev_posts, prev_results, prev_result>>
    /\ UNCHANGED <<attempted, logins, other_vars>>

----------------------------------------------------------------------------
\* lambda_handler, main.rs:22-32: the scheduler invokes the next run.  The
\* feeds serve the same entries as before.

\* What the history keeps of a result of the previous run: Ok, an Err of
\* the cursor store, or any other Err.
Outcome(res) == IF res \in {"Ok", "StoreError"} THEN res ELSE "Err"

StartRun ==
    /\ pc = "done"
    /\ pc' = "login"
    /\ prev_posts' = posts
    /\ prev_results' = [i \in 1..Len(feed_process_results) |->
                          Outcome(feed_process_results[i])]
    /\ prev_result' = Outcome(result)
    /\ feed_records' = <<>>
    /\ feed_process_results' = <<>>
    /\ result' = "none"
    /\ deltas' = [u \in FeedUrls |-> <<>>]
    /\ posts' = [u \in FeedUrls |-> <<>>]
    /\ writes' = [u \in FeedUrls |-> <<>>]
    /\ UNCHANGED <<table, source, feed_index, entries, target_entries,
                   entry_index, last_posted_entry_id>>
    /\ attempted' = [u \in FeedUrls |-> <<>>]
    /\ logins' = <<>>
    /\ UNCHANGED other_vars

Next ==
    \/ LoginOk
    \/ LoginErr
    \/ ListRegisteredFeedsOk
    \/ ListRegisteredFeedsErr
    \/ GetFeedOk
    \/ GetFeedErr
    \/ ExtractFeedEntryInfo
    \/ ExtractFeedEntryInfoPanic
    \/ UploadThumbnailOk
    \/ UploadThumbnailErr
    \/ UploadThumbnailAuthErr
    \/ CreateRecordOk
    \/ CreateRecordErr
    \/ CreateRecordAuthErr
    \/ UpdateApplicationInfoOk
    \/ UpdateApplicationInfoErr
    \/ StartRun

Spec == Init /\ [][Next]_vars

----------------------------------------------------------------------------
\* The publish client, bsky.rs:145-213.  upload_blob and create_record build
\* the request with the access token the session holds and hand it to
\* execute_request_with_refresh_session; every await is one step.

\* Sessions the server issues in all: the login and the refreshes.
MaxSessions == 3

\* Status codes the server answers with.
Statuses == {200, 300, 400, 401, 403, 429, 500}

\* No response came back: the send itself returned Err.
NoResponse == 0

\* The handles the account may go by when the server answers a refresh.
Handles == {"bot.bsky.social", "bot.example.com"}

\* bsky.rs:140: the sessions a refreshSession answer may decode to: new
\* tokens for the same account.
RefreshResponses(held) ==
    {[access_jwt |-> held.access_jwt + 1, refresh_jwt |-> held.refresh_jwt + 1,
      handle |-> h, did |-> "did:plc:bot"] : h \in Handles}

\* reqwest's error_for_status: Err for a 4xx or 5xx status, Ok otherwise.
IsErrorStatus(status) == status \in 400..599

Execution(status) == [bearer |-> request.bearer, status |-> status]

CallReturns(res) ==
    /\ client_pc' = "idle"
    /\ call_result' = res

\* bsky.rs:170-176 and 203-209: the request carries the access token held now.
BuildRequest(op) ==
    /\ client_pc = "idle"
    /\ request' = [op |-> op, bearer |-> session.access_jwt]
    /\ client_pc' = "execute"
    /\ executions' = <<>>
    /\ refreshes' = <<>>
    /\ call_result' = "none"
    /\ session_before' = session
    /\ UNCHANGED <<session, pipeline_vars, compose_vars, extract_vars>>

UploadBlob == BuildRequest("upload_blob")

\* bsky.rs:129: refresh_session is pub and may be called on its own, as
\* test_refresh_session (bsky.rs:306-312) does; such a call executes no
\* request of upload_blob or create_record.
RefreshSession ==
    /\ client_pc = "idle"
    /\ request' = [op |-> "none", bearer |-> 0]
    /\ client_pc' = "refresh_session"
    /\ executions' = <<>>
    /\ refreshes' = <<>>
    /\ call_result' = "none"
    /\ session_before' = session
    /\ UNCHANGED <<session, pipeline_vars, compose_vars, extract_vars>>

\* bsky.rs:142, 154-155: a refresh_session that was called on its own returns
\* Ok; inside execute_request_with_refresh_session the retry follows.
AfterRefreshSession ==
    IF request.op = "none"
    THEN CallReturns("Ok")
    ELSE /\ client_pc' = "retry"
         /\ UNCHANGED call_result

CreateRecord == BuildRequest("create_record")

\* A plausible slip: a 401 on the retry starts another refresh.
RetryRequestRefreshAgain ==
    /\ client_pc = "retry"
    /\ \E status \in Statuses :
         /\ executions' = Append(executions, Execution(status))
         /\ IF status = 401
            THEN /\ client_pc' = "refresh_session"
                 /\ UNCHANGED call_result
            ELSE IF IsErrorStatus(status)
            THEN CallReturns("RequestError")
            ELSE /\ client_pc' = "json"
                 /\ UNCHANGED call_result
    /\ UNCHANGED <<session, request, refreshes, session_before,
                   pipeline_vars, compose_vars, extract_vars>>

\* A plausible slip: the request is sent again after a refresh that failed.
RefreshSessionErrRetried ==
    /\ client_pc = "refresh_session"
    /\ \E status \in Statuses \cup {NoResponse} :
         refreshes' = Append(refreshes, [bearer |-> session.refresh_jwt,
                                         status |-> status, outcome |-> "Err",
                                         response |-> Absent])
    /\ IF request.op = "none"
       THEN CallReturns("AuthError")
       ELSE /\ client_pc' = "retry"
            /\ UNCHANGED call_result
    /\ UNCHANGED <<session, request, executions, session_before,
                   pipeline_vars, compose_vars, extract_vars>>

\* bsky.rs:149-153, 160-162: the first execution and the look at its status.
ExecuteRequest ==
    /\ client_pc = "execute"
    /\ \E status \in Statuses :
         /\ executions' = Append(executions, Execution(status))
         /\ IF status = 401
            THEN /\ client_pc' = "refresh_session"
                 /\ UNCHANGED call_result
            ELSE IF IsErrorStatus(status)
            THEN CallReturns("RequestError")
            ELSE /\ client_pc' = "json"
                 /\ UNCHANGED call_result
    /\ UNCHANGED <<session, request, refreshes, session_before,
                   pipeline_vars, compose_vars, extract_vars>>

\* bsky.rs:152: the ? on the first execution.
ExecuteRequestErr ==
    /\ client_pc = "execute"
    /\ executions' = Append(executions, Execution(NoResponse))
    /\ CallReturns("RequestError")
    /\ UNCHANGED <<session, request, refreshes, session_before,
                   pipeline_vars, compose_vars, extract_vars>>

\* bsky.rs:129-143, 154: refresh_session with the refresh token, called on
\* its own or after a 401.  The answer passed error_for_status (bsky.rs:139),
\* which any status below 400 does, and its body decoded to a Session
\* (bsky.rs:140); the session is replaced by it (bsky.rs:141).
RefreshSessionOk ==
    /\ client_pc = "refresh_session"
    /\ session.access_jwt < MaxSessions
    /\ \E status \in {st \in Statuses : ~IsErrorStatus(st)} :
       \E response \in RefreshResponses(session) :
         /\ refreshes' = Append(refreshes, [bearer |-> session.refresh_jwt,
                                            status |-> status, outcome |-> "Ok",
                                            response |-> Some(response)])
         /\ session' = response
    /\ AfterRefreshSession
    /\ UNCHANGED <<request, executions, session_before,
                   pipeline_vars, compose_vars, extract_vars>>

\* bsky.rs:137-140, 154: the refresh failed: the send returned Err
\* (NoResponse), error_for_status rejected a 4xx or 5xx status, or the body
\* of an answer with another status did not decode to a Session.  The caller
\* gets the Err, through the ? of line 154 inside a call.
RefreshSessionErr ==
    /\ client_pc = "refresh_session"
    /\ \E status \in Statuses \cup {NoResponse} :
         refreshes' = Append(refreshes, [bearer |-> session.refresh_jwt,
                                         status |-> status, outcome |-> "Err",
                                         response |-> Absent])
    /\ CallReturns("AuthError")
    /\ UNCHANGED <<session, request, executions, session_before,
                   pipeline_vars, compose_vars, extract_vars>>

\* bsky.rs:155-159: the request built before the refresh is executed again,
\* and error_for_status decides.
RetryRequest ==
    /\ client_pc = "retry"
    /\ \E status \in Statuses :
         /\ executions' = Append(executions, Execution(status))
         /\ IF IsErrorStatus(status)
            THEN CallReturns("RequestError")
            ELSE /\ client_pc' = "json"
                 /\ UNCHANGED call_result
    /\ UNCHANGED <<session, request, refreshes, session_before,
                   pipeline_vars, compose_vars, extract_vars>>

\* bsky.rs:158: the ? on the second execution.
RetryRequestErr ==
    /\ client_pc = "retry"
    /\ executions' = Append(executions, Execution(NoResponse))
    /\ CallReturns("RequestError")
    /\ UNCHANGED <<session, request, refreshes, session_before,
                   pipeline_vars, compose_vars, extract_vars>>

\* bsky.rs:178-179 and 211-212: response.json().await?
ResponseJsonOk ==
    /\ client_pc = "json"
    /\ CallReturns("Ok")
    /\ UNCHANGED <<session, request, executions, refreshes, session_before,
                   pipeline_vars, compose_vars, extract_vars>>

ResponseJsonErr ==
    /\ client_pc = "json"
    /\ CallReturns("DecodeError")
    /\ UNCHANGED <<session, request, executions, refreshes, session_before,
                   pipeline_vars, compose_vars, extract_vars>>

\* No run of the pipeline is under way.
PipelineNotRunning ==
    /\ PipelineAtStart
    /\ source = [u \in FeedUrls |-> <<>>]
    /\ table = [u \in FeedUrls |-> None]

\* The client after the login.
InitClient ==
    /\ PipelineNotRunning
    /\ ClientAtRest
    /\ ComposeAtRest
    /\ ExtractAtRest

NextClient ==
    \/ UploadBlob
    \/ CreateRecord
    \/ RefreshSession
    \/ ExecuteRequest
    \/ ExecuteRequestErr
    \/ RefreshSessionOk
    \/ RefreshSessionErr
    \/ RetryRequest
    \/ RetryRequestErr
    \/ ResponseJsonOk
    \/ ResponseJsonErr

SpecClient == InitClient /\ [][NextClient]_vars

----------------------------------------------------------------------------
\* The composition of the record of one entry, bsky.rs:215-275, and the call
\* that sends it, main.rs:86-94.  repo (the session's did) and created_at
\* (the clock) are left out of the request.

\* bsky.rs:234: the largest blob that is attached as thumbnail, in bytes.
ThumbMaxSize == 1000000

EntryTitles == {Absent, Some(""), Some("entry")}

FeedTitles == {Absent, Some("feed")}

OgpInfos ==
    {Absent} \cup
    {Some([title |-> t, description |-> d, image_url |-> i]) :
        t \in {Absent, Some("og:title")},
        d \in {Absent, Some("og:description")},
        i \in {Absent, Some("https://example.com/1.png")}}

BlobSizes == {0, ThumbMaxSize - 1, ThumbMaxSize, ThumbMaxSize + 1}

UploadBlobResponses ==
    {Absent} \cup
    {Some([blob |-> [mime_type |-> "image/jpeg", size |-> n]]) : n \in BlobSizes}

\* A plausible slip: the feed's title is not appended.
PostTextEntryOnly(entry_title, ftitle, debug) ==
    LET title == IF entry_title # Absent THEN entry_title[1] ELSE ""
    IN IF debug THEN "[test]\n" \o title ELSE title

\* bsky.rs:222-231: the text of the post.
PostText(entry_title, ftitle, debug) ==
    LET title == IF entry_title # Absent
                 THEN IF ftitle # Absent
                      THEN entry_title[1] \o " | " \o ftitle[1]
                      ELSE entry_title[1]
                 ELSE ""
    IN IF debug THEN "[test]\n" \o title ELSE title

\* A plausible slip: a blob of exactly the limit is dropped as well.
ThumbBelowLimit(response) ==
    IF response # Absent
    THEN IF response[1].blob.size >= ThumbMaxSize
         THEN Absent
         ELSE Some(response[1].blob)
    ELSE Absent

\* bsky.rs:232-241: the thumbnail of the embed.
Thumb(response) ==
    IF response # Absent
    THEN IF response[1].blob.size > ThumbMaxSize
         THEN Absent
         ELSE Some(response[1].blob)
    ELSE Absent

\* A plausible slip: the entry's title is taken before the page's.
EmbedTitleEntryFirst(ogp, entry) ==
    IF entry.title # Absent THEN entry.title[1]
    ELSE IF ogp.title # Absent THEN ogp.title[1]
    ELSE ""

\* bsky.rs:245-251: the title of the embed.
EmbedTitle(ogp, entry) ==
    IF ogp.title # Absent THEN ogp.title[1]
    ELSE IF entry.title # Absent THEN entry.title[1]
    ELSE ""

\* bsky.rs:243-263: the embed.
EmbedOf(entry, ogp, response) ==
    IF ogp # Absent
    THEN Some([type |-> "app.bsky.embed.external",
               external |->
                 [uri |-> entry.url,
                  title |-> EmbedTitle(ogp[1], entry),
                  description |-> IF ogp[1].description # Absent
                                  THEN ogp[1].description[1]
                                  ELSE "",
                  thumb |-> Thumb(response)]])
    ELSE Absent

\* bsky.rs:265-274: the request.
FormatCreateRecordRequestFromFeedEntry(ftitle, entry, ogp, response, debug) ==
    [collection |-> "app.bsky.feed.post",
     record |-> [type |-> "app.bsky.feed.post",
                 text |-> PostText(entry.title, ftitle, debug),
                 embed |-> EmbedOf(entry, ogp, response)]]

\* main.rs:86-93: the request is composed from what the steps before yielded.
FormatCreateRecordRequest ==
    /\ compose_pc = "format"
    /\ create_record_request' =
         Some(FormatCreateRecordRequestFromFeedEntry(
                feed_title, feed_entry, ogp_info, upload_blob_response,
                debug_assertions))
    /\ compose_pc' = "create_record"
    /\ UNCHANGED <<debug_assertions, feed_title, feed_entry, ogp_info,
                   upload_blob_response, sent, pipeline_vars, client_vars, extract_vars>>

\* main.rs:94: create_record is called with the composed request.
IssueCreateRecord ==
    /\ compose_pc = "create_record"
    /\ sent' = create_record_request
    /\ compose_pc' = "done"
    /\ UNCHANGED <<debug_assertions, feed_title, feed_entry, ogp_info,
                   upload_blob_response, create_record_request,
                   pipeline_vars, client_vars, extract_vars>>

\* Any entry, feed title, page metadata and upload answer, in a debug or a
\* release build; the function takes every combination.
InitCompose ==
    /\ PipelineNotRunning
    /\ ClientAtRest
    /\ ExtractAtRest
    /\ compose_pc = "format"
    /\ debug_assertions \in BOOLEAN
    /\ feed_title \in FeedTitles
    /\ feed_entry \in [title : EntryTitles, url : {"https://example.com/1"}]
    /\ ogp_info \in OgpInfos
    /\ upload_blob_response \in UploadBlobResponses
    /\ create_record_request = Absent
    /\ sent = Absent

NextCompose ==
    \/ FormatCreateRecordRequest
    \/ IssueCreateRecord

SpecCompose == InitCompose /\ [][NextCompose]_vars

----------------------------------------------------------------------------
\* The entries of one fetched feed, feed.rs:74-89, and what process_feed
\* does with them, main.rs:59-104.  An entry of the feed has an id, links and
\* a title; its date is handed on as it is and left out here.

\* The links an entry of the feed may carry.
LinkLists ==
    {<<>>,
     <<[href |-> "https://example.com/a"]>>,
     <<[href |-> "https://example.com/b"], [href |-> "https://example.com/a"]>>}

\* Title and date of an entry of the feed: both absent or both given.
EntryTexts ==
    {[title |-> Absent, published |-> Absent],
     [title |-> Some([content |-> "entry"]),
      published |-> Some("2024-01-01T00:00:00Z")]}

\* The feeds with n entries, newest first: ids n, n-1, ..., 1.
FeedsOfLength(n) ==
    {[i \in 1..n |-> [id |-> n + 1 - i, links |-> l[i],
                      title |-> t[i].title, published |-> t[i].published]] :
        l \in [1..n -> LinkLists], t \in [1..n -> EntryTexts]}

Feeds == UNION {FeedsOfLength(n) : n \in 0..MaxEntries}

\* feed.rs:78-85: the FeedEntry pushed for an entry: url, title, published.
FeedEntryOf(entry, url) ==
    [url |-> url,
     title |-> IF entry.title # Absent THEN Some(entry.title[1].content) ELSE Absent,
     published |-> entry.published]

\* feed.rs:76-87: the loop over feed.entries; an entry is pushed if it has a
\* first link.
RECURSIVE ExtractLoop(_, _, _)
ExtractLoop(feed_entries, index, acc) ==
    IF index > Len(feed_entries) THEN acc
    ELSE LET entry == feed_entries[index] IN
         IF entry.links # <<>>
         THEN ExtractLoop(feed_entries, index + 1,
                 Append(acc, FeedEntryOf(entry, entry.links[1].href)))
         ELSE ExtractLoop(feed_entries, index + 1, acc)

\* feed.rs:74-89.
ExtractFeedEntries(feed_entries) == ExtractLoop(feed_entries, 1, <<>>)

\* The id of each extracted entry.  process_feed reads feed_entry.id
\* (main.rs:63, 95); the extract_feed_entries it is written against is not
\* the one of feed.rs, which yields no id.  A FeedEntry has the stable id of
\* its entry, and entries without a usable link are dropped.
RECURSIVE ExtractedEntryIds(_)
ExtractedEntryIds(feed_entries) ==
    IF feed_entries = <<>> THEN <<>>
    ELSE IF Head(feed_entries).links # <<>>
    THEN <<Head(feed_entries).id>> \o ExtractedEntryIds(Tail(feed_entries))
    ELSE ExtractedEntryIds(Tail(feed_entries))

\* process_feed returns, main.rs:56-106.
ProcessFeedReturns(res) ==
    /\ extract_pc' = "done"
    /\ extract_result' = res
    /\ delta_index' = 0

\* main.rs:74, 95: the local last_posted_entry_id.
LastPosted == IF published # <<>> THEN published[Len(published)] ELSE stored_id

\* main.rs:59: let entries = extract_feed_entries(&feed).
ExtractEntries ==
    /\ extract_pc = "extract_feed_entries"
    /\ extracted' = ExtractFeedEntries(feed)
    /\ extracted_ids' = ExtractedEntryIds(feed)
    /\ extract_pc' = "target_entries"
    /\ UNCHANGED <<feed, stored_id, delta, delta_index, extract_result, published,
                   stored, pipeline_vars, client_vars, compose_vars>>

\* main.rs:60-75, 97: the delta of the extracted entries against the stored
\* id; with nothing to post the stored id, if any, is written again.
CollectTargetEntries ==
    /\ extract_pc = "target_entries"
    /\ LET targets == TargetEntries(extracted_ids, stored_id) IN
         /\ delta' = targets
         /\ IF targets # <<>>
            THEN /\ extract_pc' = "extract_feed_entry_info"
                 /\ delta_index' = 1
                 /\ UNCHANGED extract_result
            ELSE IF stored_id # None
            THEN /\ extract_pc' = "update_application_info"
                 /\ UNCHANGED <<delta_index, extract_result>>
            ELSE ProcessFeedReturns("Ok")
    /\ UNCHANGED <<feed, stored_id, extracted, extracted_ids, published, stored,
                   pipeline_vars, client_vars, compose_vars>>

\* main.rs:77: extract_feed_entry_info yields an image or none.
EntryInfo ==
    /\ extract_pc = "extract_feed_entry_info"
    /\ \E has_og_image \in BOOLEAN :
         extract_pc' = IF has_og_image THEN "upload_thumbnail" ELSE "create_record"
    /\ UNCHANGED <<feed, stored_id, extracted, extracted_ids, delta, delta_index,
                   extract_result, published, stored,
                   pipeline_vars, client_vars, compose_vars>>

\* feed.rs:130-133: the unwrap of the content-type header panics.
EntryInfoPanic ==
    /\ extract_pc = "extract_feed_entry_info"
    /\ ProcessFeedReturns("Panic")
    /\ UNCHANGED <<feed, stored_id, extracted, extracted_ids, delta, published,
                   stored, pipeline_vars, client_vars, compose_vars>>

\* main.rs:78-85: upload_thumbnail_with_resizing(..).await?
EntryUploadOk ==
    /\ extract_pc = "upload_thumbnail"
    /\ extract_pc' = "create_record"
    /\ UNCHANGED <<feed, stored_id, extracted, extracted_ids, delta, delta_index,
                   extract_result, published, stored,
                   pipeline_vars, client_vars, compose_vars>>

EntryUploadErr ==
    /\ extract_pc = "upload_thumbnail"
    /\ ProcessFeedReturns("Err")
    /\ UNCHANGED <<feed, stored_id, extracted, extracted_ids, delta, published,
                   stored, pipeline_vars, client_vars, compose_vars>>

\* main.rs:94-96: create_record(..).await?, and the loop goes on.
EntryCreateOk ==
    /\ extract_pc = "create_record"
    /\ published' = Append(published, delta[delta_index])
    /\ IF delta_index < Len(delta)
       THEN /\ delta_index' = delta_index + 1
            /\ extract_pc' = "extract_feed_entry_info"
       ELSE /\ delta_index' = 0
            /\ extract_pc' = "update_application_info"
    /\ UNCHANGED <<feed, stored_id, extracted, extracted_ids, delta, extract_result,
                   stored, pipeline_vars, client_vars, compose_vars>>

EntryCreateErr ==
    /\ extract_pc = "create_record"
    /\ ProcessFeedReturns("Err")
    /\ UNCHANGED <<feed, stored_id, extracted, extracted_ids, delta, published,
                   stored, pipeline_vars, client_vars, compose_vars>>

\* main.rs:97-106: update_application_info_in_dynamodb(..).await?
CursorStoreOk ==
    /\ extract_pc = "update_application_info"
    /\ stored' = Append(stored, LastPosted)
    /\ ProcessFeedReturns("Ok")
    /\ UNCHANGED <<feed, stored_id, extracted, extracted_ids, delta, published,
                   pipeline_vars, client_vars, compose_vars>>

CursorStoreErr ==
    /\ extract_pc = "update_application_info"
    /\ ProcessFeedReturns("Err")
    /\ UNCHANGED <<feed, stored_id, extracted, extracted_ids, delta, published,
                   stored, pipeline_vars, client_vars, compose_vars>>

\* A fetched feed and the id the store holds for it: none or any id, be it
\* of an entry with a link, of an entry the feed now serves without one, or
\* of an entry the feed no longer serves.
InitExtract ==
    /\ PipelineNotRunning
    /\ ClientAtRest
    /\ ComposeAtRest
    /\ extract_pc = "extract_feed_entries"
    /\ feed \in Feeds
    /\ stored_id \in 0..(MaxEntries + 1)
    /\ extracted = <<>>
    /\ extracted_ids = <<>>
    /\ delta = <<>>
    /\ delta_index = 0
    /\ extract_result = "none"
    /\ published = <<>>
    /\ stored = <<>>

NextExtract ==
    \/ ExtractEntries
    \/ CollectTargetEntries
    \/ EntryInfo
    \/ EntryInfoPanic
    \/ EntryUploadOk
    \/ EntryUploadErr
    \/ EntryCreateOk
    \/ EntryCreateErr
    \/ CursorStoreOk
    \/ CursorStoreErr

SpecExtract == InitExtract /\ [][NextExtract]_vars

----------------------------------------------------------------------------
\* Vocabulary of the properties.

UrlIndex(u) == CHOOSE i \in 1..Len(RegisteredFeeds) : RegisteredFeeds[i] = u

\* The id list_registered_feeds read for u at the start of the run.
CursorAtStart(u) == feed_records[UrlIndex(u)].last_posted_entry_id

Position(es, id) == CHOOSE k \in 1..Len(es) : es[k] = id

\* process_feed is inside the loop of main.rs:75-96.
InEntryLoop == pc \in {"extract_feed_entry_info", "upload_thumbnail", "create_record"}

----------------------------------------------------------------------------
\* C1: every value written to the cursor store for a feed is the id of an
\* entry whose create_record call has already returned success when the write
\* is issued: an entry posted earlier in this run, or the id the feed record
\* already carried as last posted (written again unchanged).  No write names
\* an entry whose publish has not succeeded, at any point of the run.
CursorWrittenOnlyAfterPublish ==
    \A u \in FeedUrls : \A i \in 1..Len(writes[u]) :
        \/ writes[u][i] \in Range(posts[u])
        \/ writes[u][i] # None /\ writes[u][i] = CursorAtStart(u)

\* C1 witness: a feed failed at its second entry and wrote nothing, and
\* another feed posted two entries or more and then stored the last one.
CursorWrittenOnlyAfterPublishWitness ==
    /\ pc = "done"
    /\ \E i \in 1..Len(feed_process_results) :
         /\ feed_process_results[i] = "CreateError"
         /\ Len(posts[RegisteredFeeds[i]]) = 1
         /\ writes[RegisteredFeeds[i]] = <<>>
    /\ \E u \in FeedUrls :
         /\ Len(posts[u]) >= 2
         /\ writes[u] = <<posts[u][Len(posts[u])]>>
         /\ table[u] = posts[u][Len(posts[u])]

\* C2: when a feed's delta is E1, E2, E3 and create_record fails for E2,
\* the cursor store holds E1's id for that feed once process_feed has returned.
CursorKeepsEarlierSuccess ==
    \A i \in 1..Len(feed_process_results) :
        LET u == RegisteredFeeds[i] IN
        (/\ feed_process_results[i] = "CreateError"
         /\ Len(deltas[u]) = 1
         /\ Len(deltas[u][1]) = 3
         /\ Len(posts[u]) = 1)
        => table[u] = deltas[u][1][1]

\* C3: the cursor is stored after each successful publish: while process_feed
\* works on the k-th entry of the delta the store has received the ids of the
\* k-1 entries before it, one write each, and a feed whose entries were all
\* posted has received one write per entry.
CursorStoredPerPublish ==
    /\ InEntryLoop =>
         writes[Url] = SubSeq(target_entries, 1, entry_index - 1)
    /\ \A i \in 1..Len(feed_process_results) :
         LET u == RegisteredFeeds[i] IN
         (feed_process_results[i] = "Ok" /\ deltas[u] # <<>> /\ deltas[u][1] # <<>>)
         => writes[u] = deltas[u][1]

\* C4: within one feed the create_record calls go from the oldest entry of the
\* delta to the newest, the reverse of the order the feed serves them in: of two
\* posted entries the one posted first stands later in the fetched feed, the
\* entry whose call is being issued stands before all posted ones, and no id is
\* posted twice in a run.
PublishedOldestFirst ==
    \A u \in FeedUrls :
        LET p == posts[u]
            s == source[u]
        IN /\ \A i \in 1..Len(p) : p[i] \in Range(s)
           /\ \A i, j \in 1..Len(p) :
                i < j => Position(s, p[i]) > Position(s, p[j])
           /\ (pc = "create_record" /\ Url = u) =>
                \A i \in 1..Len(p) :
                    Position(s, p[i]) > Position(s, target_entries[entry_index])

\* C4 witness: three entries of one feed have been posted.
PublishedOldestFirstWitness ==
    \E u \in FeedUrls : Len(posts[u]) = 3 /\ Len(source[u]) = 3

\* C5: an entry whose create_record call succeeded in one run is not posted
\* again by the next run of the same feed, the feed serving the same entries,
\* also when the earlier run failed at a later entry of that feed (an upload or
\* a create_record that returned Err); a run that failed to store the cursor
\* is left out.
NotPostedAgainByNextRun ==
    \A i \in 1..Len(prev_results) :
        LET u == RegisteredFeeds[i] IN
        prev_results[i] # "StoreError"
        => Range(prev_posts[u]) \cap Range(posts[u]) = {}

\* C6 as stated: after any run, a second run over unchanged feeds computes an
\* empty delta for every feed and issues no create_record call.
SecondRunIdleAfterAnyRun ==
    prev_result # "none" =>
        \A u \in FeedUrls :
            /\ posts[u] = <<>>
            /\ \A i \in 1..Len(deltas[u]) : deltas[u][i] = <<>>

\* C6 amended: after a run that returned Ok, a second run over unchanged feeds
\* computes an empty delta for every feed it fetches, issues no create_record
\* call and reaches no upload or create_record step.
SecondRunIdleAfterOkRun ==
    prev_result = "Ok" =>
        /\ ~InEntryLoop
        /\ \A u \in FeedUrls :
            /\ posts[u] = <<>>
            /\ \A i \in 1..Len(deltas[u]) : deltas[u][i] = <<>>

\* C6 witness: the first run posted entries of both feeds and returned Ok, and
\* the second run has fetched both feeds and returned.
SecondRunIdleAfterOkRunWitness ==
    /\ prev_result = "Ok"
    /\ \A u \in FeedUrls : prev_posts[u] # <<>> /\ Len(deltas[u]) = 1
    /\ pc = "done"
    /\ result = "Ok"

\* C7: when the stored cursor is the id of the fetched entry at position k
\* (newest first), the delta is the entries before position k in reversed
\* order; the matching entry and all later ones are left out, and a match at
\* the newest entry gives the empty delta.
DeltaStopsAtCursor ==
    \A u \in FeedUrls : \A i \in 1..Len(deltas[u]) :
        \A k \in 1..Len(source[u]) :
            source[u][k] = CursorAtStart(u)
            => deltas[u][i] = Reverse(SubSeq(source[u], 1, k - 1))

\* C7 witness: the cursor matched the third entry and the two newer entries
\* were posted, the older of the two first.
DeltaStopsAtCursorWitness ==
    \E u \in FeedUrls :
        /\ feed_records # <<>>
        /\ Len(source[u]) >= 3
        /\ CursorAtStart(u) = source[u][3]
        /\ deltas[u] = <<(<<source[u][2], source[u][1]>>)>>
        /\ posts[u] = <<source[u][2], source[u][1]>>

\* C8: for a feed with no stored cursor the delta is the newest entry alone,
\* or empty when the feed has no entries; nothing else is posted for it.
FirstRunPostsNewestOnly ==
    \A u \in FeedUrls : \A i \in 1..Len(deltas[u]) :
        CursorAtStart(u) = None
        => /\ deltas[u][i] = IF source[u] = <<>> THEN <<>> ELSE <<source[u][1]>>
           /\ Range(posts[u]) \subseteq {source[u][k] : k \in {1} \cap DOMAIN source[u]}

\* C8 witness: a feed of three entries without a cursor was processed to the
\* end and only its newest entry was posted; another one had no entries.
FirstRunPostsNewestOnlyWitness ==
    /\ pc = "done"
    /\ feed_records # <<>>
    /\ \E u \in FeedUrls :
         /\ CursorAtStart(u) = None
         /\ Len(source[u]) = 3
         /\ posts[u] = <<source[u][1]>>
         /\ feed_process_results[UrlIndex(u)] = "Ok"
    /\ \E u \in FeedUrls :
         /\ CursorAtStart(u) = None
         /\ source[u] = <<>>
         /\ deltas[u] = <<(<<>>)>>

\* C9: when the stored cursor is set and no fetched entry has that id, the
\* delta is the whole fetched sequence in reversed order.
DeltaIsWholeFeedWithoutMatch ==
    \A u \in FeedUrls : \A i \in 1..Len(deltas[u]) :
        (CursorAtStart(u) # None /\ CursorAtStart(u) \notin Range(source[u]))
        => deltas[u][i] = Reverse(source[u])

\* C9 witness: a cursor that matches none of three entries; all three were posted.
DeltaIsWholeFeedWithoutMatchWitness ==
    \E u \in FeedUrls :
        /\ feed_records # <<>>
        /\ CursorAtStart(u) # None
        /\ CursorAtStart(u) \notin Range(source[u])
        /\ Len(source[u]) = 3
        /\ deltas[u] = <<Reverse(source[u])>>
        /\ Len(posts[u]) = 3

\* C10 as stated: every cursor write stores an entry strictly newer than the
\* one stored before; the stored position is never written again.
CursorWriteStrictlyNewer ==
    \A u \in FeedUrls : \A i \in 1..Len(writes[u]) :
        /\ writes[u][i] # CursorAtStart(u)
        /\ CursorAtStart(u) \in Range(source[u]) =>
             /\ writes[u][i] \in Range(source[u])
             /\ Position(source[u], writes[u][i])
                  < Position(source[u], CursorAtStart(u))

\* C11: when the upload or the create_record call for an entry of a feed
\* fails, the feed stops at that entry: process_feed returns an Err, and the
\* entries a call was issued for are the delta up to the failing entry, no
\* later one.  An entry with a call issued and no accepted create_record is
\* either the one being worked on or the last one of a feed that returned Err.
FailedCallStopsFeed ==
    \A u \in FeedUrls :
        /\ deltas[u] = <<>> => attempted[u] = <<>>
        /\ deltas[u] # <<>> =>
             attempted[u] = SubSeq(deltas[u][1], 1, Len(attempted[u]))
        /\ \A k \in 1..Len(attempted[u]) :
             attempted[u][k] \notin Range(posts[u]) =>
                /\ k = Len(attempted[u])
                /\ \/ /\ pc \in {"upload_thumbnail", "create_record"}
                      /\ Url = u
                      /\ target_entries[entry_index] = attempted[u][k]
                   \/ /\ UrlIndex(u) <= Len(feed_process_results)
                      /\ feed_process_results[UrlIndex(u)]
                           \in {"UploadError", "CreateError", "AuthError"}
                      /\ pc = "done" => result # "Ok"

\* C11 witness: of a delta of three entries the first was posted and the
\* upload for the second failed; the third got no call, and the run, now over,
\* returned an Err.
FailedCallStopsFeedWitness ==
    /\ pc = "done"
    /\ result # "Ok"
    /\ \E i \in 1..Len(feed_process_results) :
         LET u == RegisteredFeeds[i] IN
         /\ feed_process_results[i] = "UploadError"
         /\ Len(deltas[u][1]) = 3
         /\ posts[u] = SubSeq(deltas[u][1], 1, 1)
         /\ attempted[u] = SubSeq(deltas[u][1], 1, 2)

\* C12: feed-level failures are isolated.  Once the list of feeds has been
\* read, a run that is over has called process_feed once for every feed, in
\* list order, whatever the earlier feeds returned, and it returned an Err
\* exactly if one of the feeds did.
EveryFeedProcessedOnce ==
    (pc = "done" /\ feed_records # <<>>) =>
        /\ Len(feed_process_results) = Len(feed_records)
        /\ \A u \in FeedUrls : Len(deltas[u]) <= 1
        /\ result = "Ok" <=>
             \A i \in 1..Len(feed_process_results) : feed_process_results[i] = "Ok"

\* C13: in one upload_blob or create_record call the client refreshes the
\* session only after a 401 answer to the first execution of the request and
\* at most once; after a refresh that succeeded it executes the request once
\* more and no further time; a 401 on that retry ends the call with a request
\* failure.  The request is executed twice at most.
RefreshOnceRetryOnce ==
    request.op \in {"upload_blob", "create_record"} =>
    /\ Len(executions) <= 2
    /\ Len(refreshes) <= 1
    /\ refreshes # <<>> => (Len(executions) >= 1 /\ executions[1].status = 401)
    /\ (Len(executions) >= 1 /\ executions[1].status = 401) =>
          \/ client_pc = "refresh_session" /\ refreshes = <<>>
          \/ Len(refreshes) = 1
    /\ Len(executions) = 2 => (Len(refreshes) = 1 /\ refreshes[1].outcome = "Ok")
    /\ (Len(refreshes) = 1 /\ refreshes[1].outcome = "Ok") =>
          \/ client_pc = "retry" /\ Len(executions) = 1
          \/ Len(executions) = 2
    /\ (Len(executions) = 2 /\ executions[2].status = 401) =>
          (client_pc = "idle" /\ call_result = "RequestError")

\* C13 witness: a call whose first execution and whose retry were both
\* answered with 401 has returned a request failure after one refresh.
RefreshOnceRetryOnceWitness ==
    /\ client_pc = "idle"
    /\ call_result = "RequestError"
    /\ Len(executions) = 2
    /\ executions[1].status = 401
    /\ executions[2].status = 401
    /\ Len(refreshes) = 1

\* C14: a session refresh that fails is fatal for the run: after the feed it
\* failed in, no feed is fetched and no upload or create_record call is issued.
RefreshFailureEndsRun ==
    \A i \in 1..Len(feed_process_results) :
        feed_process_results[i] = "AuthError" =>
            \A j \in (i + 1)..Len(RegisteredFeeds) :
                /\ j > Len(feed_process_results)
                /\ deltas[RegisteredFeeds[j]] = <<>>
                /\ attempted[RegisteredFeeds[j]] = <<>>

\* C15: when the refresh that a 401 triggered fails, the call is over: it
\* returns the Err to its caller and the request is not executed a second time.
FailedRefreshNoRetry ==
    (/\ request.op \in {"upload_blob", "create_record"}
     /\ Len(refreshes) >= 1
     /\ refreshes[Len(refreshes)].outcome = "Err") =>
        /\ client_pc = "idle"
        /\ call_result = "AuthError"
        /\ Len(executions) = 1
        /\ session = session_before

\* C15 witness: a create_record call got a 401, its refresh failed and the
\* call returned the Err after that one execution.
FailedRefreshNoRetryWitness ==
    /\ request.op = "create_record"
    /\ call_result = "AuthError"
    /\ Len(executions) = 1
    /\ executions[1].status = 401
    /\ Len(refreshes) = 1
    /\ refreshes[1].outcome = "Err"

\* C16: a call whose first answer has a status that is neither 2xx nor 401
\* fails: it does not return Ok, no refresh is issued, the request is not
\* executed again and the session is the one the call began with.
OtherStatusFailsAtOnce ==
    (/\ Len(executions) >= 1
     /\ executions[1].status # NoResponse
     /\ executions[1].status \notin 200..299
     /\ executions[1].status # 401)
    => /\ call_result # "Ok"
       /\ client_pc # "refresh_session"
       /\ client_pc # "retry"
       /\ refreshes = <<>>
       /\ Len(executions) = 1
       /\ session = session_before

\* C17: a failure of the enrichment never blocks the post: from the step that
\* fetches an entry's metadata and image the pipeline goes on to the upload or
\* to the create_record call of that entry, whatever the fetches returned.
EnrichmentNeverBlocksPublish ==
    [][pc = "extract_feed_entry_info" =>
         pc' \in {"upload_thumbnail", "create_record"}]_vars

\* C18: the composed record carries a thumbnail exactly if it has an embed,
\* an uploaded blob exists and the size the upload reported is 1,000,000 bytes
\* at most; the thumbnail is that blob.  A larger blob does not keep the post
\* back: the request, with its text and the embed's title and description, is
\* what create_record is called with.
ThumbnailWithinLimit ==
    compose_pc # "format" =>
        LET record == create_record_request[1].record
            attached == /\ record.embed # Absent
                        /\ record.embed[1].external.thumb # Absent
        IN /\ attached <=> /\ record.embed # Absent
                           /\ upload_blob_response # Absent
                           /\ upload_blob_response[1].blob.size <= 1000000
           /\ attached =>
                record.embed[1].external.thumb = Some(upload_blob_response[1].blob)
           /\ compose_pc = "done" =>
                /\ sent # Absent
                /\ sent[1].record.text = record.text
                /\ sent[1].record.embed = record.embed

\* C18 witness: the upload reported 1,000,001 bytes; the record was sent with
\* its embed and without a thumbnail.
ThumbnailWithinLimitWitness ==
    /\ compose_pc = "done"
    /\ upload_blob_response # Absent
    /\ upload_blob_response[1].blob.size = 1000001
    /\ sent # Absent
    /\ sent[1].record.embed # Absent
    /\ sent[1].record.embed[1].external.thumb = Absent
    /\ sent[1].record.embed[1].external.title = "og:title"

\* C19: the composed record has an embed exactly if page metadata was obtained
\* for the entry.  The embed's uri is the entry's url, its title the metadata's
\* title, else the entry's title, else the empty string, and its description
\* the metadata's description or the empty string.
EmbedFromMetadata ==
    compose_pc # "format" =>
        LET embed == create_record_request[1].record.embed IN
        /\ embed # Absent <=> ogp_info # Absent
        /\ embed # Absent =>
             LET external == embed[1].external
                 ogp == ogp_info[1]
             IN /\ external.uri = feed_entry.url
                /\ ogp.title # Absent => external.title = ogp.title[1]
                /\ (ogp.title = Absent /\ feed_entry.title # Absent) =>
                     external.title = feed_entry.title[1]
                /\ (ogp.title = Absent /\ feed_entry.title = Absent) =>
                     external.title = ""
                /\ ogp.description # Absent =>
                     external.description = ogp.description[1]
                /\ ogp.description = Absent => external.description = ""

\* C19 witness: the page gave a title and no description, the entry has a
\* title of its own; the embed carries the page's title and "".
EmbedFromMetadataWitness ==
    /\ compose_pc = "done"
    /\ ogp_info # Absent
    /\ ogp_info[1].title = Some("og:title")
    /\ ogp_info[1].description = Absent
    /\ feed_entry.title = Some("entry")
    /\ sent[1].record.embed[1].external.title = "og:title"
    /\ sent[1].record.embed[1].external.description = ""

\* C20 as stated: the text of the post is the entry's title, or the empty
\* string when the entry has none, whatever the feed's title, the metadata and
\* the upload are.
TextIsEntryTitle ==
    compose_pc # "format" =>
        create_record_request[1].record.text =
            IF feed_entry.title # Absent THEN feed_entry.title[1] ELSE ""

\* C20 amended: the text is the entry's title followed by " | " and the feed's
\* title when the feed has one, the entry's title alone when it has none, and
\* the empty string when the entry has no title; a debug build puts "[test]"
\* and a line break in front.  Metadata and upload do not enter.
TextIsEntryAndFeedTitle ==
    compose_pc # "format" =>
        LET text == create_record_request[1].record.text
            prefix == IF debug_assertions THEN "[test]\n" ELSE ""
        IN /\ (feed_entry.title # Absent /\ feed_title # Absent) =>
                text = prefix \o feed_entry.title[1] \o " | " \o feed_title[1]
           /\ (feed_entry.title # Absent /\ feed_title = Absent) =>
                text = prefix \o feed_entry.title[1]
           /\ feed_entry.title = Absent => text = prefix

\* C20 witness: a release build posts the entry "entry" of the feed "feed"
\* with the text "entry | feed".
TextIsEntryAndFeedTitleWitness ==
    /\ compose_pc = "done"
    /\ ~debug_assertions
    /\ feed_entry.title = Some("entry")
    /\ feed_title = Some("feed")
    /\ sent[1].record.text = "entry | feed"

\* C21: every execution of a request carries the access token the session
\* holds when the request is executed: the first execution the token the call
\* began with, the retry after a refresh the token the refresh brought, not the
\* one that was answered with 401.
ExecutionCarriesHeldToken ==
    /\ Len(executions) >= 1 =>
         executions[1].bearer = session_before.access_jwt
    /\ Len(executions) = 2 =>
         executions[2].bearer = session.access_jwt

\* C22: refresh_session changes the session on success only.  A refresh
\* that fails, by a transport error, an answer whose status is not 2xx or a
\* body that does not decode, leaves the tokens and the account of the session
\* as they were; one that succeeds replaces the whole session by the one the
\* server answered with; no other step of the client changes the session.
SessionReplacedOnlyByRefresh ==
    [][LET refreshed == /\ client_pc = "refresh_session"
                        /\ Len(refreshes') = Len(refreshes) + 1
           last == refreshes'[Len(refreshes')]
           failed == \/ last.status = NoResponse
                     \/ last.status \notin 200..299
                     \/ last.response = Absent
       IN /\ session' # session => (refreshed /\ ~failed)
          /\ (refreshed /\ failed) => session' = session
          /\ (refreshed /\ ~failed) => session' = last.response[1]]_vars

\* C23: a run logs in once, before it reads the list of feeds and before it
\* fetches any feed.  When the login or the read of the list fails the run is
\* over with an Err: no feed was fetched, no upload or create_record call was
\* issued and no cursor was written.
LoginOnceBeforeFeeds ==
    LET untouched ==
            /\ feed_process_results = <<>>
            /\ \A u \in FeedUrls :
                 /\ deltas[u] = <<>>
                 /\ attempted[u] = <<>>
                 /\ posts[u] = <<>>
                 /\ writes[u] = <<>>
    IN /\ Len(logins) <= 1
       /\ pc = "login" => (logins = <<>> /\ untouched /\ feed_records = <<>>)
       /\ pc # "login" => Len(logins) = 1
       /\ (feed_records # <<>> \/ ~untouched \/ pc \notin {"login", "done"}) =>
             logins = <<"Ok">>
       /\ logins = <<"Err">> => (pc = "done" /\ result = "LoginError")
       /\ result \in {"LoginError", "ScanError"} =>
             (pc = "done" /\ feed_records = <<>> /\ untouched)

\* C23 witness: the login succeeded and the read of the list failed; both
\* feeds had entries to post and the run ended with nothing done.
LoginOnceBeforeFeedsWitness ==
    /\ pc = "done"
    /\ result = "ScanError"
    /\ logins = <<"Ok">>
    /\ \A u \in FeedUrls : Len(source[u]) = 3 /\ table[u] = None /\ posts[u] = <<>>

\* C24: extract_feed_entries returns the entries of the feed that have a
\* link, in the order of the feed, each with its first link as url.  An entry
\* without a link is dropped without an Err: it is in no delta, it is not
\* posted and its id is not written to the cursor store.
LinklessEntriesDropped ==
    extract_pc # "extract_feed_entries" =>
        LET linked == SelectSeq(feed, LAMBDA entry : Len(entry.links) >= 1)
            linkless == {feed[i].id : i \in {j \in 1..Len(feed) : feed[j].links = <<>>}}
        IN /\ Len(extracted) = Len(linked)
           /\ Len(extracted_ids) = Len(linked)
           /\ \A k \in 1..Len(linked) :
                /\ extracted[k].url = linked[k].links[1].href
                /\ extracted[k].published = linked[k].published
                /\ extracted_ids[k] = linked[k].id
           /\ linkless \cap Range(delta) = {}
           /\ linkless \cap Range(published) = {}
           /\ linkless \cap Range(stored) = {}

====
